---- MODULE Spec2Model ----
(***************************************************************************)
(* A model of the Chess-AI engine: the Board value object with its reduced *)
(* FEN codec (board.py), the pseudo/legal move generator, the check        *)
(* detector, the position mutator, the material evaluator and the          *)
(* alpha-beta search (ai.py), and the Game wrapper with its command loop   *)
(* (game.py, main.py).                                                     *)
(*                                                                         *)
(* Squares are <<row, col>> with both coordinates in 0..7 as in the code;  *)
(* a grid is a tuple of 8 rows of 8 cells, so that the cell the code reads *)
(* as grid[row][col] is grid[row + 1][col + 1] here.  A cell holds a piece *)
(* letter or None.  Scores are counted in quarter pawns, which keeps the   *)
(* bishop's 3.25 an integer: every score of the code is the model's score  *)
(* divided by 4, exactly.                                                  *)
(***************************************************************************)
EXTENDS Integers, Sequences, FiniteSets, TLC

\* ------------------------------------------------------------------------
\* Characters and pieces (board.py: Piece = str, Color = str)
\* ------------------------------------------------------------------------

None == "None"

UpperLetters == {"P", "N", "B", "R", "Q", "K"}
LowerLetters == {"p", "n", "b", "r", "q", "k"}

\* str.isupper / str.islower / str.upper / str.lower on one piece letter.
isupper(ch) == ch \in UpperLetters
islower(ch) == ch \in LowerLetters

upper(ch) ==
    CASE ch = "p" -> "P" [] ch = "n" -> "N" [] ch = "b" -> "B"
      [] ch = "r" -> "R" [] ch = "q" -> "Q" [] ch = "k" -> "K"
      [] OTHER -> ch

lower(ch) ==
    CASE ch = "P" -> "p" [] ch = "N" -> "n" [] ch = "B" -> "b"
      [] ch = "R" -> "r" [] ch = "Q" -> "q" [] ch = "K" -> "k"
      [] OTHER -> ch

\* Move(from_sq, to_sq, promotion): the frozen dataclass of board.py.
Move(f, t, p) == [from_sq |-> f, to_sq |-> t, promotion |-> p]

\* Python's None where an Optional[Move], an Optional[Square] or an
\* Optional[GameResult] is expected: a value of the same shape that is no
\* move, square or result (TLC compares only values of one shape).
NoMove == [from_sq |-> <<>>, to_sq |-> <<>>, promotion |-> None]
NoSquare == <<>>
NoResult == [winner |-> None, reason |-> None]

\* Board(grid, turn): Board.__init__ copies the grid cell by cell; a TLA+
\* value is its own copy.
Board(g, t) == [grid |-> g, turn |-> t]

opposite(color) == IF color = "white" THEN "black" ELSE "white"

piece_at(board, square) == board.grid[square[1] + 1][square[2] + 1]

is_on_board(square) ==
    /\ 0 <= square[1] /\ square[1] < 8
    /\ 0 <= square[2] /\ square[2] < 8

\* The occupancy test the generators repeat inline:
\* (color == "white" and piece.islower()) or (color == "black" and piece.isupper())
is_opponent_piece(color, piece) ==
    \/ color = "white" /\ islower(piece)
    \/ color = "black" /\ isupper(piece)

\* ------------------------------------------------------------------------
\* Pseudo-legal move generation (board.py, Board._generate_pseudo_moves ..)
\* ------------------------------------------------------------------------

PromotionLetters == <<"Q", "R", "B", "N">>

\* One plain move per target, in the order of the targets.
plain_moves(square, targets) ==
    [i \in 1..Len(targets) |-> Move(square, targets[i], None)]

\* promotion_moves that offers the queen only.
promotion_moves_queen_only(square, target, color) ==
    <<Move(square, target, IF color = "white" THEN "Q" ELSE "q")>>

\* for promo in ("Q", "R", "B", "N"): piece = promo if white else promo.lower()
promotion_moves(square, target, color) ==
    [i \in 1..4 |->
        Move(square, target,
             IF color = "white" THEN PromotionLetters[i]
                                ELSE lower(PromotionLetters[i]))]

_pawn_moves(board, square, color) ==
    LET row == square[1]
        col == square[2]
        direction == IF color = "white" THEN -1 ELSE 1
        start_row == IF color = "white" THEN 6 ELSE 1
        promotion_row == IF color = "white" THEN 0 ELSE 7
        forward == <<row + direction, col>>
        double == <<row + 2 * direction, col>>
        forward_free == is_on_board(forward) /\ piece_at(board, forward) = None
        single_step ==
            IF forward_free
            THEN IF forward[1] = promotion_row
                 THEN promotion_moves(square, forward, color)
                 ELSE <<Move(square, forward, None)>>
            ELSE <<>>
        double_step ==
            IF /\ forward_free
               /\ row = start_row
               /\ piece_at(board, double) = None
               /\ piece_at(board, forward) = None
            THEN <<Move(square, double, None)>>
            ELSE <<>>
        capture(dc) ==
            LET target == <<row + direction, col + dc>> IN
            IF ~is_on_board(target) THEN <<>>
            ELSE LET target_piece == piece_at(board, target) IN
                 IF target_piece = None THEN <<>>
                 ELSE IF is_opponent_piece(color, target_piece)
                      THEN IF target[1] = promotion_row
                           THEN promotion_moves(square, target, color)
                           ELSE <<Move(square, target, None)>>
                      ELSE <<>>
    IN  single_step \o double_step \o capture(-1) \o capture(1)

KnightDeltas ==
    << <<-2, -1>>, <<-2, 1>>, <<-1, -2>>, <<-1, 2>>,
       <<1, -2>>, <<1, 2>>, <<2, -1>>, <<2, 1>> >>

\* step_target_ok without the occupancy test: a knight or king may also land
\* on a piece of its own side.
step_target_ok_any_piece(board, color, target) == is_on_board(target)

\* A knight's or king's target: on the board and empty or the opponent's.
step_target_ok(board, color, target) ==
    /\ is_on_board(target)
    /\ LET piece == piece_at(board, target) IN
       piece = None \/ is_opponent_piece(color, piece)

_knight_moves(board, square, color) ==
    LET targets == [i \in 1..8 |-> <<square[1] + KnightDeltas[i][1],
                                     square[2] + KnightDeltas[i][2]>>]
        ok(t) == step_target_ok(board, color, t)
    IN  plain_moves(square, SelectSeq(targets, ok))

\* for dr in (-1, 0, 1): for dc in (-1, 0, 1): skip (0, 0)
KingDeltas ==
    << <<-1, -1>>, <<-1, 0>>, <<-1, 1>>, <<0, -1>>,
       <<0, 1>>, <<1, -1>>, <<1, 0>>, <<1, 1>> >>

_king_moves(board, square, color) ==
    LET targets == [i \in 1..8 |-> <<square[1] + KingDeltas[i][1],
                                     square[2] + KingDeltas[i][2]>>]
        ok(t) == step_target_ok(board, color, t)
    IN  plain_moves(square, SelectSeq(targets, ok))

BishopDirections == << <<-1, -1>>, <<-1, 1>>, <<1, -1>>, <<1, 1>> >>
RookDirections == << <<-1, 0>>, <<1, 0>>, <<0, -1>>, <<0, 1>> >>
QueenDirections == BishopDirections \o RookDirections

\* The while loop of _sliding_moves along one direction, from cell (r, c).
RECURSIVE slide(_, _, _, _, _, _, _)
slide(board, square, color, r, c, dr, dc) ==
    IF ~(0 <= r /\ r < 8 /\ 0 <= c /\ c < 8) THEN <<>>
    ELSE LET piece == board.grid[r + 1][c + 1] IN
         IF piece = None
         THEN <<Move(square, <<r, c>>, None)>>
                  \o slide(board, square, color, r + dr, c + dc, dr, dc)
         ELSE IF is_opponent_piece(color, piece)
              THEN <<Move(square, <<r, c>>, None)>>
              ELSE <<>>

RECURSIVE sliding_from(_, _, _, _, _)
sliding_from(board, square, color, directions, i) ==
    IF i > Len(directions) THEN <<>>
    ELSE slide(board, square, color,
               square[1] + directions[i][1], square[2] + directions[i][2],
               directions[i][1], directions[i][2])
         \o sliding_from(board, square, color, directions, i + 1)

_sliding_moves(board, square, color, directions) ==
    sliding_from(board, square, color, directions, 1)

_moves_for_piece(board, square, piece) ==
    LET color == IF isupper(piece) THEN "white" ELSE "black"
        p == upper(piece)
    IN  CASE p = "P" -> _pawn_moves(board, square, color)
          [] p = "N" -> _knight_moves(board, square, color)
          [] p = "B" -> _sliding_moves(board, square, color, BishopDirections)
          [] p = "R" -> _sliding_moves(board, square, color, RookDirections)
          [] p = "Q" -> _sliding_moves(board, square, color, QueenDirections)
          [] p = "K" -> _king_moves(board, square, color)
          [] OTHER -> <<>>

\* The row-major scan of _generate_pseudo_moves from cell number n (= 8 row + col).
RECURSIVE pseudo_from(_, _, _)
pseudo_from(board, color, n) ==
    IF n >= 64 THEN <<>>
    ELSE LET row == n \div 8
             col == n % 8
             piece == board.grid[row + 1][col + 1]
         IN  IF \/ piece = None
                \/ color = "white" /\ ~isupper(piece)
                \/ color = "black" /\ ~islower(piece)
             THEN pseudo_from(board, color, n + 1)
             ELSE _moves_for_piece(board, <<row, col>>, piece)
                      \o pseudo_from(board, color, n + 1)

_generate_pseudo_moves(board, color) == pseudo_from(board, color, 0)

\* ------------------------------------------------------------------------
\* Position mutator and check detector
\* ------------------------------------------------------------------------

apply_move(board, move, switch_turn) ==
    LET from_row == move.from_sq[1] + 1
        from_col == move.from_sq[2] + 1
        to_row == move.to_sq[1] + 1
        to_col == move.to_sq[2] + 1
        moved == board.grid[from_row][from_col]
        cleared == [board.grid EXCEPT ![from_row][from_col] = None]
        piece == IF move.promotion # None THEN move.promotion ELSE moved
        new_grid == [cleared EXCEPT ![to_row][to_col] = piece]
        next_turn == IF switch_turn THEN opposite(board.turn) ELSE board.turn
    IN  Board(new_grid, next_turn)

RECURSIVE find_from(_, _, _)
find_from(board, symbol, n) ==
    IF n >= 64 THEN NoSquare
    ELSE IF board.grid[(n \div 8) + 1][(n % 8) + 1] = symbol
         THEN <<n \div 8, n % 8>>
         ELSE find_from(board, symbol, n + 1)

_find_king(board, color) ==
    find_from(board, IF color = "white" THEN "K" ELSE "k", 0)

\* is_in_check that takes a side without a king to be safe.
is_in_check_no_king_is_safe(board, color) ==
    LET king_sq == _find_king(board, color) IN
    IF king_sq = NoSquare THEN FALSE
    ELSE LET moves == _generate_pseudo_moves(board, opposite(color)) IN
         \E i \in 1..Len(moves) : moves[i].to_sq = king_sq

is_in_check(board, color) ==
    LET king_sq == _find_king(board, color) IN
    IF king_sq = NoSquare THEN TRUE
    ELSE LET moves == _generate_pseudo_moves(board, opposite(color)) IN
         \E i \in 1..Len(moves) : moves[i].to_sq = king_sq

\* generate_legal_moves without the filter.
generate_legal_moves_unfiltered(board, color) ==
    _generate_pseudo_moves(board, color)

\* generate_legal_moves that tests the opponent's king instead of the mover's.
generate_legal_moves_other_king(board, color) ==
    LET keeps(move) ==
            ~is_in_check(apply_move(board, move, FALSE), opposite(color))
    IN  SelectSeq(_generate_pseudo_moves(board, color), keeps)

generate_legal_moves(board, color) ==
    LET keeps(move) == ~is_in_check(apply_move(board, move, FALSE), color)
    IN  SelectSeq(_generate_pseudo_moves(board, color), keeps)

is_checkmate(board, color) ==
    is_in_check(board, color) /\ Len(generate_legal_moves(board, color)) = 0

is_stalemate(board, color) ==
    ~is_in_check(board, color) /\ Len(generate_legal_moves(board, color)) = 0

\* ------------------------------------------------------------------------
\* The reduced FEN codec (board.py, Board.from_fen / Board.to_fen).
\* A text is a sequence of one-character strings.
\* ------------------------------------------------------------------------

Digits == {"0", "1", "2", "3", "4", "5", "6", "7", "8", "9"}

isdigit(ch) == ch \in Digits

\* int(ch) of a digit character.
int(ch) ==
    CASE ch = "0" -> 0 [] ch = "1" -> 1 [] ch = "2" -> 2 [] ch = "3" -> 3
      [] ch = "4" -> 4 [] ch = "5" -> 5 [] ch = "6" -> 6 [] ch = "7" -> 7
      [] ch = "8" -> 8 [] ch = "9" -> 9

\* str(n) of a run length 1..8: one digit character.
str(n) ==
    CASE n = 0 -> <<"0">> [] n = 1 -> <<"1">> [] n = 2 -> <<"2">>
      [] n = 3 -> <<"3">> [] n = 4 -> <<"4">> [] n = 5 -> <<"5">>
      [] n = 6 -> <<"6">> [] n = 7 -> <<"7">> [] n = 8 -> <<"8">>

\* str.split() with no argument: the maximal runs of non-blank characters
\* (leading and trailing blanks give no field, so strip() changes nothing).
RECURSIVE split_blank(_, _, _)
split_blank(text, i, cur) ==
    IF i > Len(text)
    THEN IF cur = <<>> THEN <<>> ELSE <<cur>>
    ELSE IF text[i] = " "
         THEN (IF cur = <<>> THEN <<>> ELSE <<cur>>)
                  \o split_blank(text, i + 1, <<>>)
         ELSE split_blank(text, i + 1, Append(cur, text[i]))

\* str.split("/"): every "/" ends a piece, empty pieces are kept.
RECURSIVE split_slash(_, _, _)
split_slash(text, i, cur) ==
    IF i > Len(text) THEN <<cur>>
    ELSE IF text[i] = "/"
         THEN <<cur>> \o split_slash(text, i + 1, <<>>)
         ELSE split_slash(text, i + 1, Append(cur, text[i]))

\* The inner loop of from_fen over one row string.
RECURSIVE expand_row(_, _)
expand_row(row_str, i) ==
    IF i > Len(row_str) THEN <<>>
    ELSE (IF isdigit(row_str[i])
          THEN [k \in 1..int(row_str[i]) |-> None]
          ELSE <<row_str[i]>>)
         \o expand_row(row_str, i + 1)

ValueError(msg) == [ok |-> FALSE, error |-> msg]

\* A row test that lets a short row through.
row_invalid_only_if_longer(row) == Len(row) > 8

\* if len(row) != 8: raise ValueError
row_invalid(row) == Len(row) # 8

from_fen(fen) ==
    LET parts == split_blank(fen, 1, <<>>) IN
    IF Len(parts) < 2 THEN ValueError("Invalid FEN")
    ELSE LET rows == split_slash(parts[1], 1, <<>>) IN
         IF Len(rows) # 8 THEN ValueError("Invalid FEN (rows)")
         ELSE LET grid == [r \in 1..8 |-> expand_row(rows[r], 1)] IN
              IF \E r \in 1..8 : row_invalid(grid[r])
              THEN ValueError("Invalid FEN row")
              ELSE [ok |-> TRUE,
                    board |-> Board(grid, IF parts[2] = <<"w">>
                                          THEN "white" ELSE "black")]

\* fen_row that does not reset the run of empty cells after writing it.
RECURSIVE fen_row_keeps_run(_, _, _)
fen_row_keeps_run(row, c, empty) ==
    IF c > 8 THEN (IF empty # 0 THEN str(empty) ELSE <<>>)
    ELSE IF row[c] = None
         THEN fen_row_keeps_run(row, c + 1, empty + 1)
         ELSE (IF empty # 0 THEN str(empty) ELSE <<>>)
                  \o <<row[c]>> \o fen_row_keeps_run(row, c + 1, empty)

\* The inner loop of to_fen over the cells of one row, from column c.
RECURSIVE fen_row(_, _, _)
fen_row(row, c, empty) ==
    IF c > 8 THEN (IF empty # 0 THEN str(empty) ELSE <<>>)
    ELSE IF row[c] = None
         THEN fen_row(row, c + 1, empty + 1)
         ELSE (IF empty # 0 THEN str(empty) ELSE <<>>)
                  \o <<row[c]>> \o fen_row(row, c + 1, 0)

\* "/".join(rows)
RECURSIVE join_rows(_, _)
join_rows(rows, r) ==
    IF r > Len(rows) THEN <<>>
    ELSE (IF r > 1 THEN <<"/">> ELSE <<>>) \o rows[r] \o join_rows(rows, r + 1)

to_fen(board) ==
    LET rows == [r \in 1..8 |-> fen_row(board.grid[r], 1, 0)]
        turn_part == IF board.turn = "white" THEN <<"w">> ELSE <<"b">>
    IN  join_rows(rows, 1) \o <<" ">> \o turn_part

StartFen ==
    << "r", "n", "b", "q", "k", "b", "n", "r", "/",
       "p", "p", "p", "p", "p", "p", "p", "p", "/",
       "8", "/", "8", "/", "8", "/", "8", "/",
       "P", "P", "P", "P", "P", "P", "P", "P", "/",
       "R", "N", "B", "Q", "K", "B", "N", "R", " ", "w" >>

start_position == from_fen(StartFen).board

\* ------------------------------------------------------------------------
\* Evaluator and search (ai.py).  Scores are in quarter pawns.
\* ------------------------------------------------------------------------

\* PIECE_VALUES.get(piece.upper(), 0.0), times 4.
PIECE_VALUES(p) ==
    CASE p = "P" -> 4 [] p = "N" -> 12 [] p = "B" -> 13
      [] p = "R" -> 20 [] p = "Q" -> 36 [] p = "K" -> 0
      [] OTHER -> 0

\* 10_000.0 pawns, in quarter pawns.
MateScore == 40000

\* float("inf"): above every score the search can return.
Inf == 1000000

max(a, b) == IF a >= b THEN a ELSE b
min(a, b) == IF a <= b THEN a ELSE b

RECURSIVE material_from(_, _)
material_from(board, n) ==
    IF n >= 64 THEN 0
    ELSE LET piece == board.grid[(n \div 8) + 1][(n % 8) + 1] IN
         (IF piece = None THEN 0
          ELSE IF isupper(piece) THEN PIECE_VALUES(upper(piece))
               ELSE 0 - PIECE_VALUES(upper(piece)))
         + material_from(board, n + 1)

evaluate_board(board) == material_from(board, 0)

\* depth == 0: the evaluator's score, sign-flipped for Black.
leaf_score(board, maximizing_color) ==
    LET score == evaluate_board(board) IN
    IF maximizing_color = "white" THEN score ELSE 0 - score

\* beta_cutoff that breaks after the first child whatever the bounds are.
beta_cutoff_always(alpha, beta) == TRUE

\* beta_cutoff that never breaks the loop.
beta_cutoff_never(alpha, beta) == FALSE

\* if alpha >= beta: break   (and: if beta <= alpha: break)
beta_cutoff(alpha, beta) == alpha >= beta
alpha_cutoff(alpha, beta) == beta <= alpha

\* One run of minimax: the value it returns and, as bookkeeping of the model,
\* the number of minimax calls the run made (itself included).
Run(v, n) == [value |-> v, calls |-> n]

RECURSIVE minimax_run(_, _, _, _, _)
RECURSIVE max_loop(_, _, _, _, _, _, _, _, _)
RECURSIVE min_loop(_, _, _, _, _, _, _, _, _)

\* The maximizing player's for loop from move number i, with the loop's
\* current value and alpha.
max_loop(board, legal_moves, i, depth, alpha, beta, maximizing_color, value, calls) ==
    IF i > Len(legal_moves) THEN Run(value, calls)
    ELSE LET child == apply_move(board, legal_moves[i], TRUE)
             sub == minimax_run(child, depth - 1, alpha, beta, maximizing_color)
             value2 == max(value, sub.value)
             alpha2 == max(alpha, value2)
         IN  IF beta_cutoff(alpha2, beta) THEN Run(value2, calls + sub.calls)
             ELSE max_loop(board, legal_moves, i + 1, depth, alpha2, beta,
                           maximizing_color, value2, calls + sub.calls)

\* The minimizing player's for loop.
min_loop(board, legal_moves, i, depth, alpha, beta, maximizing_color, value, calls) ==
    IF i > Len(legal_moves) THEN Run(value, calls)
    ELSE LET child == apply_move(board, legal_moves[i], TRUE)
             sub == minimax_run(child, depth - 1, alpha, beta, maximizing_color)
             value2 == min(value, sub.value)
             beta2 == min(beta, value2)
         IN  IF alpha_cutoff(alpha, beta2) THEN Run(value2, calls + sub.calls)
             ELSE min_loop(board, legal_moves, i + 1, depth, alpha, beta2,
                           maximizing_color, value2, calls + sub.calls)

minimax_run(board, depth, alpha, beta, maximizing_color) ==
    IF depth = 0 THEN Run(leaf_score(board, maximizing_color), 1)
    ELSE LET side_to_move == board.turn
             legal_moves == generate_legal_moves(board, side_to_move)
         IN  IF Len(legal_moves) = 0
             THEN IF is_in_check(board, side_to_move)
                  THEN IF side_to_move = maximizing_color
                       THEN Run(0 - MateScore, 1) ELSE Run(MateScore, 1)
                  ELSE Run(0, 1)
             ELSE IF side_to_move = maximizing_color
                  THEN max_loop(board, legal_moves, 1, depth, alpha, beta,
                                maximizing_color, 0 - Inf, 1)
                  ELSE min_loop(board, legal_moves, 1, depth, alpha, beta,
                                maximizing_color, Inf, 1)

minimax(board, depth, alpha, beta, maximizing_color) ==
    minimax_run(board, depth, alpha, beta, maximizing_color).value

SearchResult(m, s) == [move |-> m, score |-> s]

\* The colour find_best_move passes to minimax as maximizing_color.
root_maximizing_color(side_to_move) == side_to_move

\* improves with White's comparison used for both sides.
improves_as_white(side_to_move, score, best_score) == score > best_score

\* The comparison that lets a candidate replace the best move so far.
improves(side_to_move, score, best_score) ==
    IF side_to_move = "white" THEN score > best_score ELSE score < best_score

\* The for loop of find_best_move from move number i.
RECURSIVE best_loop(_, _, _, _, _, _)
best_loop(board, legal_moves, i, max_depth, best_move, best_score) ==
    IF i > Len(legal_moves) THEN SearchResult(best_move, best_score)
    ELSE LET side_to_move == board.turn
             move == legal_moves[i]
             child == apply_move(board, move, TRUE)
             score == minimax(child, max_depth - 1, 0 - Inf, Inf,
                              root_maximizing_color(side_to_move))
         IN  IF improves(side_to_move, score, best_score)
             THEN best_loop(board, legal_moves, i + 1, max_depth, move, score)
             ELSE best_loop(board, legal_moves, i + 1, max_depth,
                            best_move, best_score)

find_best_move(board, max_depth) ==
    LET side_to_move == board.turn
        legal_moves == generate_legal_moves(board, side_to_move)
    IN  IF Len(legal_moves) = 0
        THEN SearchResult(NoMove,
                 IF is_in_check(board, side_to_move)
                 THEN IF side_to_move = "white" THEN 0 - MateScore ELSE MateScore
                 ELSE 0)
        ELSE best_loop(board, legal_moves, 1, max_depth, NoMove,
                       IF side_to_move = "white" THEN 0 - Inf ELSE Inf)

\* ------------------------------------------------------------------------
\* Move notation codec (board.py, Move / Board.square_to_str / str_to_square)
\* ------------------------------------------------------------------------

FileChars == <<"a", "b", "c", "d", "e", "f", "g", "h">>
RankChars == <<"1", "2", "3", "4", "5", "6", "7", "8">>

Range(seq) == {seq[i] : i \in 1..Len(seq)}

\* ord(file_char) - ord("a")
file_index(ch) == CHOOSE i \in 0..7 : FileChars[i + 1] = ch

\* chr(ord("a") + col) followed by str(8 - row)
square_to_str(square) == <<FileChars[square[2] + 1]>> \o str(8 - square[1])

str_to_square(s) ==
    IF Len(s) # 2 THEN ValueError("Invalid square string")
    ELSE IF s[1] \notin Range(FileChars) \/ s[2] \notin Range(RankChars)
         THEN ValueError("Invalid square")
         ELSE [ok |-> TRUE, square |-> <<8 - int(s[2]), file_index(s[1])>>]

\* str.strip() of a text whose only blank character is " ".
RECURSIVE lstrip(_)
lstrip(s) == IF s # <<>> /\ Head(s) = " " THEN lstrip(Tail(s)) ELSE s

RECURSIVE rstrip(_)
rstrip(s) ==
    IF s # <<>> /\ s[Len(s)] = " " THEN rstrip(SubSeq(s, 1, Len(s) - 1)) ELSE s

strip(s) == rstrip(lstrip(s))

to_long_algebraic(move) ==
    square_to_str(move.from_sq) \o square_to_str(move.to_sq)
        \o (IF move.promotion # None THEN <<upper(move.promotion)>> ELSE <<>>)

from_long_algebraic(text) ==
    LET s == strip(text) IN
    IF Len(s) \notin {4, 5} THEN ValueError("Invalid move string")
    ELSE LET from_sq == str_to_square(SubSeq(s, 1, 2))
             to_sq == str_to_square(SubSeq(s, 3, 4))
         IN  IF ~from_sq.ok THEN from_sq
             ELSE IF ~to_sq.ok THEN to_sq
             ELSE IF Len(s) = 5
                  THEN LET promo_char == upper(s[5]) IN
                       IF promo_char \notin {"Q", "R", "B", "N"}
                       THEN ValueError("Invalid promotion piece")
                       ELSE [ok |-> TRUE,
                             move |-> Move(from_sq.square, to_sq.square, promo_char)]
                  ELSE [ok |-> TRUE,
                        move |-> Move(from_sq.square, to_sq.square, None)]

\* ------------------------------------------------------------------------
\* Game (game.py)
\* ------------------------------------------------------------------------

GameResult(w, r) == [winner |-> w, reason |-> r]

\* is_finished without the checkmate test.
is_finished_stalemate_only(board) ==
    IF is_stalemate(board, board.turn)
    THEN GameResult(None, "stalemate")
    ELSE NoResult

\* Game.is_finished on the game's board: a GameResult or None (NoResult).
is_finished(board) ==
    LET color == board.turn IN
    IF is_checkmate(board, color)
    THEN GameResult(opposite(color), "checkmate")
    ELSE IF is_stalemate(board, color)
         THEN GameResult(None, "stalemate")
         ELSE NoResult

\* The test that pairs the parsed move with a legal move m.
matches(m, move) == m.from_sq = move.from_sq /\ m.to_sq = move.to_sq

\* The for loop of parse_and_validate_move from legal move number i.
RECURSIVE validate_from(_, _, _)
validate_from(legal_moves, move, i) ==
    IF i > Len(legal_moves) THEN NoMove
    ELSE LET m == legal_moves[i] IN
         IF matches(m, move)
         THEN IF m.promotion # None /\ move.promotion = None
              THEN Move(m.from_sq, m.to_sq, m.promotion)
              ELSE move
         ELSE validate_from(legal_moves, move, i + 1)

\* Game.parse_and_validate_move on the game's board: a Move or None (NoMove).
parse_and_validate_move(board, move_str) ==
    LET parsed_move == from_long_algebraic(strip(move_str)) IN
    IF ~parsed_move.ok THEN NoMove
    ELSE validate_from(generate_legal_moves(board, board.turn),
                       parsed_move.move, 1)

\* Game.ai_move
ai_move(board, depth) == find_best_move(board, depth)

\* ------------------------------------------------------------------------
\* State
\* ------------------------------------------------------------------------

VARIABLES
    board,        \* Game.board: the current position
    depth,        \* the search depth handed to find_best_move (--depth)
    human_color,  \* run_cli: the side the human plays (--human-color)
    status,       \* run_cli: "playing" until the loop breaks
    ply,          \* number of moves applied to the board so far
    last,         \* the last operation: its kind, the board it ran on, the
                  \* text it was given, the move and the score it returned
    fen,          \* the text handed to Board.from_fen
    parsed,       \* what from_fen made of it
    stack,        \* the frames of a running find_best_move / minimax
    heap,         \* list objects that hold the rows of grids, by address
    positions     \* the Board objects alive, each naming its 8 row objects

vars == <<board, depth, human_color, status, ply, last, fen, parsed,
          stack, heap, positions>>

Colors == {"white", "black"}

Op(kind, before, input, move, score) ==
    [op |-> kind, before |-> before, input |-> input, move |-> move,
     score |-> score]

NotParsed == [ok |-> FALSE, error |-> "not parsed"]

\* Bounds of the model.
MaxPly == 2          \* legal play: moves from the start position
MaxDepth == 2        \* largest search depth tried
MaxSearchPly == 1    \* engine positions: moves applied after the set-up
MaxCliPly == 4       \* command loop: moves applied
MaxEdits == 1        \* FEN texts: edits applied to a well-formed text

\* ------------------------------------------------------------------------
\* Spec: legal play from the start position.  Game() followed by
\* Game.apply_move of moves taken from generate_legal_moves.
\* ------------------------------------------------------------------------

Init ==
    /\ board = start_position
    /\ depth = 1
    /\ human_color = "white"
    /\ status = "playing"
    /\ ply = 0
    /\ last = Op("init", start_position, <<>>, NoMove, 0)
    /\ fen = StartFen
    /\ parsed = from_fen(StartFen)
    /\ stack = <<>>
    /\ heap = <<>>
    /\ positions = <<>>

PlayLegalMove ==
    /\ ply < MaxPly
    /\ \E legal_moves \in {generate_legal_moves(board, board.turn)} :
       \E i \in 1..Len(legal_moves) :
           /\ board' = apply_move(board, legal_moves[i], TRUE)
           /\ last' = Op("legal", board, <<>>, legal_moves[i], 0)
    /\ ply' = ply + 1
    /\ UNCHANGED <<depth, human_color, status, fen, parsed,
                   stack, heap, positions>>

Next == PlayLegalMove

Spec == Init /\ [][Next]_vars

\* C7: the start position has exactly 20 legal moves for White, and after each
\* one of those 20 White moves the position has exactly 20 legal moves for Black.
C7_StartPositionMoveCounts ==
    /\ ply = 0 =>
         LET white_moves == generate_legal_moves(board, "white") IN
         /\ board = start_position
         /\ Len(white_moves) = 20
         /\ \A i \in 1..Len(white_moves) :
                Len(generate_legal_moves(apply_move(board, white_moves[i], TRUE),
                                         "black")) = 20
    /\ ply = 1 =>
         /\ last.before = start_position
         /\ board.turn = "black"
         /\ Len(generate_legal_moves(board, "black")) = 20

\* C7's case: White has played e2e4 from the start position.
C7_Witness ==
    /\ ply = 1
    /\ last.move = Move(<<6, 4>>, <<4, 4>>, None)
    /\ Len(generate_legal_moves(board, board.turn)) = 20

\* C8: for every position p reached from the start position by legal moves,
\* from_fen(to_fen(p)) has p's grid and side to move, and encoding the parsed
\* position again gives the same text.
C8_FenRoundTrip ==
    LET text == to_fen(board)
        back == from_fen(text)
    IN  /\ back.ok
        /\ back.board.grid = board.grid
        /\ back.board.turn = board.turn
        /\ to_fen(back.board) = text

\* C8's case: after two moves, a row that holds both pieces and empty cells
\* (its text mixes letters and run lengths) round-trips.
C8_Witness ==
    /\ ply = 2
    /\ \E r \in 1..8 :
           /\ \E c \in 1..8 : board.grid[r][c] = None
           /\ \E c \in 1..8 : board.grid[r][c] # None
    /\ from_fen(to_fen(board)).board = board

\* ------------------------------------------------------------------------
\* SpecFen: Board.from_fen applied to texts.  The texts are well-formed
\* texts and everything up to MaxEdits single-character edits away from them.
\* ------------------------------------------------------------------------

EditChars == {"K", "p", "0", "1", "8", "/", " ", "b"}

\* No white king, no black king.
EmptyBoardFen ==
    << "8", "/", "8", "/", "8", "/", "8", "/", "8", "/", "8", "/", "8", "/",
       "8", " ", "w" >>

\* Two white kings, and Black (not to move) in check from the rook.
TwoKingsFen ==
    << "K", "K", "6", "/", "8", "/", "8", "/", "8", "/", "8", "/", "8", "/",
       "8", "/", "k", "6", "R", " ", "w" >>

\* Fool's mate: White is checkmated by the queen on h4.
FoolsMateFen ==
    << "r", "n", "b", "1", "k", "b", "n", "r", "/",
       "p", "p", "p", "p", "1", "p", "p", "p", "/",
       "8", "/",
       "4", "p", "3", "/",
       "6", "P", "q", "/",
       "5", "P", "2", "/",
       "P", "P", "P", "P", "P", "2", "P", "/",
       "R", "N", "B", "Q", "K", "B", "N", "R", " ", "w" >>

SeedFens == {StartFen, EmptyBoardFen, TwoKingsFen, FoolsMateFen}

EditsOf(text) ==
    LET n == Len(text) IN
    {SubSeq(text, 1, i) \o <<ch>> \o SubSeq(text, i + 1, n) :
         i \in 0..n, ch \in EditChars}
    \cup {SubSeq(text, 1, i - 1) \o SubSeq(text, i + 1, n) : i \in 1..n}
    \cup {[text EXCEPT ![i] = ch] : i \in 1..n, ch \in EditChars}

RECURSIVE FenTexts(_)
FenTexts(edits) ==
    IF edits = 0 THEN SeedFens
    ELSE LET fewer == FenTexts(edits - 1) IN
         fewer \cup UNION {EditsOf(text) : text \in fewer}

InitFen ==
    /\ fen \in FenTexts(MaxEdits)
    /\ parsed = NotParsed
    /\ board = start_position
    /\ depth = 1
    /\ human_color = "white"
    /\ status = "playing"
    /\ ply = 0
    /\ last = Op("init", start_position, <<>>, NoMove, 0)
    /\ stack = <<>>
    /\ heap = <<>>
    /\ positions = <<>>

ParseFen ==
    /\ parsed = NotParsed
    /\ parsed' = from_fen(fen)
    /\ UNCHANGED <<board, depth, human_color, status, ply, last, fen,
                   stack, heap, positions>>

NextFen == ParseFen

SpecFen == InitFen /\ [][NextFen]_vars

\* What the format rule says of a text, read off the text itself: its
\* fields are the maximal runs of non-blank characters; the board field is the
\* first of them; its rows are what its slashes separate; a row's cells are
\* the run lengths of its digits plus one per other character.
FieldStarts(text) ==
    {i \in 1..Len(text) : text[i] # " " /\ (i = 1 \/ text[i - 1] = " ")}

BoardFieldStart(text) ==
    CHOOSE i \in FieldStarts(text) : \A j \in FieldStarts(text) : i <= j

BoardFieldEnd(text) ==
    LET first == BoardFieldStart(text)
        blanks == {i \in first..Len(text) : text[i] = " "}
    IN  IF blanks = {} THEN Len(text)
        ELSE (CHOOSE i \in blanks : \A j \in blanks : i <= j) - 1

CellsOfChar(ch) == IF isdigit(ch) THEN int(ch) ELSE 1

RECURSIVE CellsBetween(_, _, _)
CellsBetween(text, from, to) ==
    IF from > to THEN 0
    ELSE CellsOfChar(text[from]) + CellsBetween(text, from + 1, to)

\* The rows of the board field, each as the pair of its first and last index.
RowBounds(text) ==
    LET first == BoardFieldStart(text)
        end == BoardFieldEnd(text)
        cuts == {first - 1, end + 1} \cup {i \in first..end : text[i] = "/"}
    IN  {<<a + 1, b - 1>> : <<a, b>> \in
            {<<a, b>> \in cuts \X cuts :
                a < b /\ \A c \in cuts : ~(a < c /\ c < b)}}

FormatErrorExpected(text) ==
    \/ Cardinality(FieldStarts(text)) < 2
    \/ Cardinality(RowBounds(text)) # 8
    \/ \E row \in RowBounds(text) : CellsBetween(text, row[1], row[2]) # 8

\* C9: from_fen signals a format error if and only if the text has fewer than
\* two blank-separated fields, its board field does not have exactly 8
\* slash-separated rows, or some row does not expand to exactly 8 cells; every
\* other text is accepted and yields a position of 8 rows of 8 cells, whatever
\* kings it holds.
C9_FromFenFormatError ==
    parsed # NotParsed =>
        /\ ~parsed.ok <=> FormatErrorExpected(fen)
        /\ parsed.ok =>
             /\ Len(parsed.board.grid) = 8
             /\ \A r \in 1..8 : Len(parsed.board.grid[r]) = 8
             /\ parsed.board.turn \in Colors

\* C9's case: an edited text that from_fen accepts although the position has
\* no white king.
C9_Witness ==
    /\ parsed # NotParsed
    /\ fen \notin SeedFens
    /\ parsed.ok
    /\ _find_king(parsed.board, "white") = NoSquare

\* ------------------------------------------------------------------------
\* SpecSearch: a game whose board was set up from a FEN text, played by the
\* engine (Game.ai_move, Game.apply_move) and by a human who types move
\* texts (Game.parse_and_validate_move, Game.apply_move).
\* ------------------------------------------------------------------------

\* Black to move, not in check, without a legal move.
BlackStalematedFen ==
    << "7", "k", "/", "5", "Q", "2", "/", "6", "K", "1", "/", "8", "/",
       "8", "/", "8", "/", "8", "/", "8", " ", "b" >>

\* White mates with a1a8.
MateInOneFen ==
    << "7", "k", "/", "8", "/", "6", "K", "1", "/", "8", "/", "8", "/",
       "8", "/", "8", "/", "R", "7", " ", "w" >>

\* Black to move and checkmated.
BlackMatedFen ==
    << "R", "6", "k", "/", "8", "/", "6", "K", "1", "/", "8", "/", "8",
       "/", "8", "/", "8", "/", "8", " ", "b" >>

\* White to move and checkmated.
WhiteMatedFen ==
    << "8", "/", "8", "/", "8", "/", "8", "/", "8", "/", "6", "k", "1",
       "/", "6", "q", "1", "/", "7", "K", " ", "w" >>

\* White to move, not in check, without a legal move.
WhiteStalematedFen ==
    << "8", "/", "8", "/", "8", "/", "8", "/", "8", "/", "5", "k", "2",
       "/", "5", "q", "2", "/", "7", "K", " ", "w" >>

\* A pawn of each side one step from promotion, White to move.
PromotionWhiteFen ==
    << "8", "/", "P", "6", "k", "/", "8", "/", "8", "/", "8", "/", "8",
       "/", "p", "6", "K", "/", "8", " ", "w" >>

\* The same, Black to move.
PromotionBlackFen ==
    << "8", "/", "P", "6", "k", "/", "8", "/", "8", "/", "8", "/", "8",
       "/", "p", "6", "K", "/", "8", " ", "b" >>

\* White's rook is pinned to its king.
PinnedRookFen ==
    << "4", "r", "2", "k", "/", "8", "/", "8", "/", "8", "/", "8", "/",
       "8", "/", "4", "R", "3", "/", "4", "K", "3", " ", "w" >>

\* Black can take an unprotected rook.
RookTradeBlackFen ==
    << "7", "k", "/", "8", "/", "8", "/", "3", "r", "4", "/", "8", "/",
       "8", "/", "3", "R", "4", "/", "7", "K", " ", "b" >>

\* White can take an unprotected rook.
RookTradeWhiteFen ==
    << "7", "k", "/", "8", "/", "8", "/", "3", "r", "4", "/", "8", "/",
       "8", "/", "3", "R", "4", "/", "7", "K", " ", "w" >>

\* White is in check from the queen and can take it.
QueenCheckFen ==
    << "7", "k", "/", "8", "/", "8", "/", "3", "q", "4", "/", "8", "/",
       "8", "/", "3", "R", "4", "/", "7", "K", " ", "w" >>

\* Pawns that promote by a push or by a capture, White to move.
CapturePromotionWhiteFen ==
    << "1", "n", "5", "k", "/", "P", "7", "/", "8", "/", "8", "/", "8",
       "/", "8", "/", "7", "p", "/", "K", "5", "N", "1", " ", "w" >>

\* The same, Black to move.
CapturePromotionBlackFen ==
    << "1", "n", "5", "k", "/", "P", "7", "/", "8", "/", "8", "/", "8",
       "/", "8", "/", "7", "p", "/", "K", "5", "N", "1", " ", "b" >>

\* No white king on the board.
LoneBlackKingFen ==
    << "k", "7", "/", "8", "/", "8", "/", "8", "/", "8", "/", "8", "/",
       "8", "/", "8", " ", "b" >>

SearchFens ==
    {StartFen, EmptyBoardFen,
     BlackStalematedFen, MateInOneFen, BlackMatedFen,
     WhiteMatedFen, WhiteStalematedFen, PromotionWhiteFen,
     PromotionBlackFen, PinnedRookFen, RookTradeBlackFen,
     RookTradeWhiteFen, QueenCheckFen, CapturePromotionWhiteFen,
     CapturePromotionBlackFen, LoneBlackKingFen}

\* The move texts the human types.
MoveTexts ==
    { << "a", "7", "a", "8" >>,
      << "a", "7", "a", "8", "q" >>,
      << "a", "7", "a", "8", "N" >>,
      << "a", "7", "b", "8", "r" >>,
      << "a", "2", "a", "1" >>,
      << "a", "2", "a", "1", "q" >>,
      << "a", "2", "a", "1", "R" >>,
      << "h", "2", "g", "1", "n" >>,
      << "h", "1", "g", "1" >>,
      << "h", "1", "g", "1", "b" >>,
      << "e", "2", "e", "4" >>,
      << "e", "2", "e", "4", "Q" >>,
      << "d", "5", "d", "2" >>,
      << "d", "2", "d", "5" >>,
      << "a", "1", "a", "8" >>,
      << "h", "8", "g", "8" >>,
      << "e", "2", "e" >>,
      << "a", "7", "a", "8", "k" >>,
      << " ", "d", "2", "d", "5", " " >> }

InitSearch ==
    /\ board \in {from_fen(text).board : text \in SearchFens}
    /\ depth \in 1..MaxDepth
    /\ human_color = "white"
    /\ status = "playing"
    /\ ply = 0
    /\ last = Op("init", board, <<>>, NoMove, 0)
    /\ fen = <<>>
    /\ parsed = NotParsed
    /\ stack = <<>>
    /\ heap = <<>>
    /\ positions = <<>>

\* The engine's turn: search_result = game.ai_move(depth), then
\* game.apply_move(search_result.move) unless the move is absent.
EngineMove ==
    /\ ply < MaxSearchPly
    /\ \E search_result \in {ai_move(board, depth)} :
          /\ last' = Op("ai", board, <<>>, search_result.move, search_result.score)
          /\ IF search_result.move = NoMove
             THEN UNCHANGED <<board, ply>>
             ELSE /\ board' = apply_move(board, search_result.move, TRUE)
                  /\ ply' = ply + 1
    /\ UNCHANGED <<depth, human_color, status, fen, parsed,
                   stack, heap, positions>>

\* The human's turn: move = game.parse_and_validate_move(text); a None is
\* answered by asking again, a move is applied.
HumanMove(text) ==
    /\ ply < MaxSearchPly
    /\ \E move \in {parse_and_validate_move(board, text)} :
          /\ move # NoMove
          /\ board' = apply_move(board, move, TRUE)
          /\ last' = Op("human", board, text, move, 0)
    /\ ply' = ply + 1
    /\ UNCHANGED <<depth, human_color, status, fen, parsed,
                   stack, heap, positions>>

NextSearch ==
    \/ EngineMove
    \/ \E text \in MoveTexts : HumanMove(text)

SpecSearch == InitSearch /\ [][NextSearch]_vars

\* ------------------------------------------------------------------------
\* Reference definitions of the claims about the search
\* ------------------------------------------------------------------------

SetMax(S) == CHOOSE x \in S : \A y \in S : y <= x
SetMin(S) == CHOOSE x \in S : \A y \in S : x <= y

\* The unpruned minimax over the same tree: depth-0 evaluation with the sign
\* flipped for Black, +/-MateScore and 0 at positions without legal moves, max
\* where the side to move is the maximizing colour and min elsewhere.
RECURSIVE FullMinimax(_, _, _)
FullMinimax(position, d, maximizing_color) ==
    IF d = 0
    THEN IF maximizing_color = "white" THEN evaluate_board(position)
         ELSE 0 - evaluate_board(position)
    ELSE LET moves == generate_legal_moves(position, position.turn) IN
         IF Len(moves) = 0
         THEN IF is_in_check(position, position.turn)
              THEN IF position.turn = maximizing_color
                   THEN 0 - MateScore ELSE MateScore
              ELSE 0
         ELSE LET values == {FullMinimax(apply_move(position, moves[i], TRUE),
                                         d - 1, maximizing_color) :
                                 i \in 1..Len(moves)}
              IN  IF position.turn = maximizing_color
                  THEN SetMax(values) ELSE SetMin(values)

\* The number of nodes of that tree.
RECURSIVE FullCalls(_, _)
FullCalls(position, d) ==
    IF d = 0 THEN 1
    ELSE LET moves == generate_legal_moves(position, position.turn)
             below[i \in 0..Len(moves)] ==
                 IF i = 0 THEN 0
                 ELSE below[i - 1]
                      + FullCalls(apply_move(position, moves[i], TRUE), d - 1)
         IN  1 + below[Len(moves)]

\* W(q, d): the White-relative minimax value of q at depth d.
RECURSIVE WhiteValue(_, _)
WhiteValue(position, d) ==
    IF d = 0 THEN evaluate_board(position)
    ELSE LET moves == generate_legal_moves(position, position.turn) IN
         IF Len(moves) = 0
         THEN IF is_in_check(position, position.turn)
              THEN IF position.turn = "white" THEN 0 - MateScore ELSE MateScore
              ELSE 0
         ELSE LET values == {WhiteValue(apply_move(position, moves[i], TRUE),
                                        d - 1) : i \in 1..Len(moves)}
              IN  IF position.turn = "white"
                  THEN SetMax(values) ELSE SetMin(values)

\* C1: for every position, every remaining depth and either maximizing
\* colour, minimax called with alpha = -infinity and beta = +infinity returns
\* the value of the unpruned minimax over the same tree.
C1_AlphaBetaEquivalence ==
    \A d \in 0..depth : \A color \in Colors :
        minimax(board, d, 0 - Inf, Inf, color) = FullMinimax(board, d, color)

\* C1's case: a search in which a cut-off happened (it made fewer calls than
\* the tree has nodes) and returned the unpruned value.
C1_Witness ==
    /\ depth = 2
    /\ minimax_run(board, 2, 0 - Inf, Inf, "white").calls < FullCalls(board, 2)
    /\ minimax(board, 2, 0 - Inf, Inf, "white") = FullMinimax(board, 2, "white")

\* C2: the move find_best_move returns maximizes W(apply_move(p, m),
\* max_depth - 1) over the legal moves m when White is to move and minimizes
\* it when Black is to move.
C2_BestMoveForSideToMove ==
    (last.op = "ai" /\ last.move # NoMove) =>
        LET p == last.before
            moves == generate_legal_moves(p, p.turn)
            chosen == WhiteValue(apply_move(p, last.move, TRUE), depth - 1)
        IN  \A i \in 1..Len(moves) :
                LET other == WhiteValue(apply_move(p, moves[i], TRUE), depth - 1)
                IN  IF p.turn = "white" THEN chosen >= other ELSE chosen <= other

\* C3: the score find_best_move returns is the White-relative minimax value of
\* the position at depth max_depth, whichever side is to move.
C3_ScoreIsWhiteRelative ==
    (last.op = "ai" /\ last.move # NoMove) =>
        last.score = WhiteValue(last.before, depth)

\* C4: generate_legal_moves returns exactly the pseudo-legal moves after which
\* the mover's king is not attacked, in the order of pseudo-generation.
C4_LegalMovesAreSafePseudoMoves ==
    \A color \in Colors :
        LET pseudo == _generate_pseudo_moves(board, color)
            legal == generate_legal_moves(board, color)
            safe(m) == ~is_in_check(apply_move(board, m, FALSE), color)
            place(m) == CHOOSE j \in 1..Len(pseudo) : pseudo[j] = m
        IN  /\ \A i \in 1..Len(legal) :
                   /\ \E j \in 1..Len(pseudo) : pseudo[j] = legal[i]
                   /\ safe(legal[i])
            /\ \A j \in 1..Len(pseudo) :
                   safe(pseudo[j]) => \E i \in 1..Len(legal) : legal[i] = pseudo[j]
            /\ \A i \in 1..Len(legal) : \A k \in 1..Len(legal) :
                   i < k => place(legal[i]) < place(legal[k])

\* C4's case: a position where the filter drops some pseudo-legal moves of
\* the side to move and keeps others (a pinned piece, a king next to attacked
\* squares).
C4_Witness ==
    LET pseudo == _generate_pseudo_moves(board, board.turn)
        legal == generate_legal_moves(board, board.turn)
    IN  /\ Len(legal) > 0
        /\ Len(legal) < Len(pseudo)
        /\ \E j \in 1..Len(pseudo) :
               /\ pseudo[j].from_sq # _find_king(board, board.turn)
               /\ is_in_check(apply_move(board, pseudo[j], FALSE), board.turn)

\* C6: after a move with a promotion, from the generator or typed by the
\* human, the destination holds the promotion piece in the colour of the
\* piece that moved.
C6_PromotionHasMoversColour ==
    (last.op \in {"ai", "human"} /\ last.move.promotion # None) =>
        LET mover == piece_at(last.before, last.move.from_sq)
            placed == piece_at(board, last.move.to_sq)
        IN  placed = IF isupper(mover) THEN upper(last.move.promotion)
                                       ELSE lower(last.move.promotion)

\* C10: find_best_move returns an absent move if and only if the side to move
\* has no legal move; the score is then -MateScore for White in check,
\* +MateScore for Black in check and 0 otherwise; the start position yields a
\* move.
C10_AbsentMoveIffNoLegalMove ==
    last.op = "ai" =>
        LET p == last.before
            none == Len(generate_legal_moves(p, p.turn)) = 0
        IN  /\ last.move = NoMove <=> none
            /\ none =>
                 last.score = IF is_in_check(p, p.turn)
                              THEN IF p.turn = "white"
                                   THEN 0 - MateScore ELSE MateScore
                              ELSE 0
            /\ p = start_position => last.move # NoMove

\* C10's case: the engine was asked to move for a checkmated Black and
\* returned no move with the score +MateScore.
C10_Witness ==
    /\ last.op = "ai"
    /\ last.before.turn = "black"
    /\ is_in_check(last.before, "black")
    /\ last.move = NoMove
    /\ last.score = MateScore

\* ------------------------------------------------------------------------
\* SpecCli: the command loop of run_cli.  Each action is one iteration of the
\* while loop.
\* ------------------------------------------------------------------------

MaxCliDepth == 1     \* command loop: largest --depth tried

\* What the human types at the prompt.
CliTexts ==
    { <<"e", "2", "e", "4">>,
      <<"e", "2", "e", "4", "Q">>,
      <<"e", "1", "e", "2">>,
      <<"e", "1", "e", "2", "Q">>,
      <<"g", "1", "f", "3">>,
      <<"e", "7", "e", "5">>,
      <<"e", "7", "e", "5", "q">>,
      <<"e", "8", "e", "7">>,
      <<"e", "8", "e", "7", "n">>,
      <<"b", "8", "c", "6">>,
      <<"e", "2", "e", "5">>,
      <<"e", "9", "e", "4">>,
      <<"e", "2", "e">>,
      <<"e", "2", "e", "4", "x">>,
      <<" ", "e", "2", "e", "4", " ">>,
      <<"h", "e", "l", "p">>,
      <<"q", "u", "i", "t">> }

\* user_input.lower() of a text of lower-case letters, digits and piece letters.
lower_text(text) == [i \in 1..Len(text) |-> lower(text[i])]

QuitCommands == {<<"q", "u", "i", "t">>, <<"e", "x", "i", "t">>}
HelpCommands == {<<"h", "e", "l", "p">>, <<"?">>}

InitCli ==
    /\ board = start_position
    /\ depth \in 1..MaxCliDepth
    /\ human_color \in Colors
    /\ status = "playing"
    /\ ply = 0
    /\ last = Op("init", start_position, <<>>, NoMove, 0)
    /\ fen = StartFen
    /\ parsed = from_fen(StartFen)
    /\ stack = <<>>
    /\ heap = <<>>
    /\ positions = <<>>

\* result = game.is_finished(); if result is not None: ... break
CliGameOver ==
    /\ status = "playing"
    /\ is_finished(board) # NoResult
    /\ status' = "finished"
    /\ UNCHANGED <<board, depth, human_color, ply, last, fen, parsed,
                   stack, heap, positions>>

\* The human's branch of the loop body, for one line of input out of texts.
HumanTurn(texts, max_ply) ==
    /\ status = "playing"
    /\ ply < max_ply
    /\ board.turn = human_color
    /\ is_finished(board) = NoResult
    /\ \E text \in texts : \E user_input \in {strip(text)} :
          IF lower_text(user_input) \in QuitCommands
          THEN /\ status' = "quit"
               /\ UNCHANGED <<board, ply, last>>
          ELSE IF lower_text(user_input) \in HelpCommands
          THEN UNCHANGED <<board, ply, last, status>>
          ELSE \E move \in {parse_and_validate_move(board, user_input)} :
                  /\ last' = Op("human", board, user_input, move, 0)
                  /\ IF move = NoMove
                     THEN UNCHANGED <<board, ply, status>>
                     ELSE /\ board' = apply_move(board, move, TRUE)
                          /\ ply' = ply + 1
                          /\ UNCHANGED status
    /\ UNCHANGED <<depth, human_color, fen, parsed,
                   stack, heap, positions>>

CliHumanTurn == HumanTurn(CliTexts, MaxCliPly)

\* The engine's branch of the loop body.
EngineTurn(max_ply) ==
    /\ status = "playing"
    /\ ply < max_ply
    /\ board.turn # human_color
    /\ is_finished(board) = NoResult
    /\ \E search_result \in {ai_move(board, depth)} :
          /\ last' = Op("ai", board, <<>>, search_result.move, search_result.score)
          /\ IF search_result.move = NoMove
             THEN /\ status' = "engine_no_moves"
                  /\ UNCHANGED <<board, ply>>
             ELSE /\ board' = apply_move(board, search_result.move, TRUE)
                  /\ ply' = ply + 1
                  /\ UNCHANGED status
    /\ UNCHANGED <<depth, human_color, fen, parsed,
                   stack, heap, positions>>

CliEngineTurn == EngineTurn(MaxCliPly)

NextCli ==
    \/ CliGameOver
    \/ CliHumanTurn
    \/ CliEngineTurn

SpecCli == InitCli /\ [][NextCli]_vars

\* C5: parse_and_validate_move returns a move only if that exact move (origin,
\* destination and promotion) is one of the legal moves of the position, and
\* returns None for a well-formed text that adds a promotion letter to a move
\* no legal move makes with a promotion; so every move the human has applied
\* was legal.
C5_OnlyLegalMovesAccepted ==
    last.op = "human" =>
        LET legal == generate_legal_moves(last.before, last.before.turn)
            typed == from_long_algebraic(last.input)
        IN  /\ last.move # NoMove => \E i \in 1..Len(legal) : legal[i] = last.move
            /\ ( /\ typed.ok
                 /\ typed.move.promotion # None
                 /\ ~\E i \in 1..Len(legal) :
                        /\ matches(legal[i], typed.move)
                        /\ legal[i].promotion # None )
               => last.move = NoMove

\* ------------------------------------------------------------------------
\* SpecCalls: find_best_move run call by call.  stack holds one frame per
\* active call, the find_best_move frame first; a step is the call that a
\* for loop makes for its next move, or the return of the innermost call.
\* ------------------------------------------------------------------------

MaxCallDepth == 3    \* call by call: --depth ranges over -MaxCallDepth..MaxCallDepth
RecursionLimit == 6  \* call by call: frames the interpreter allows (its recursion limit)

Frame(fn, position, d, alpha, beta, maximizing_color, legal_moves, value) ==
    [fn |-> fn, board |-> position, depth |-> d, alpha |-> alpha,
     beta |-> beta, maximizing_color |-> maximizing_color,
     legal_moves |-> legal_moves, i |-> 1, value |-> value,
     best_move |-> NoMove, broke |-> FALSE]

\* The frame of find_best_move(position, max_depth) when it reaches its for
\* loop, or when it is about to return because there is no legal move.
find_best_move_frame(position, max_depth) ==
    LET side_to_move == position.turn
        legal_moves == generate_legal_moves(position, side_to_move)
        score == IF Len(legal_moves) # 0
                 THEN IF side_to_move = "white" THEN 0 - Inf ELSE Inf
                 ELSE IF is_in_check(position, side_to_move)
                      THEN IF side_to_move = "white"
                           THEN 0 - MateScore ELSE MateScore
                      ELSE 0
    IN  Frame("find_best_move", position, max_depth, 0 - Inf, Inf,
              root_maximizing_color(side_to_move), legal_moves, score)

\* The frame of minimax(position, d, alpha, beta, maximizing_color) when it
\* reaches one of its for loops, or when it is about to return a leaf score
\* (then it has no moves to loop over).
minimax_frame(position, d, alpha, beta, maximizing_color) ==
    IF d = 0
    THEN Frame("minimax", position, d, alpha, beta, maximizing_color, <<>>,
               leaf_score(position, maximizing_color))
    ELSE LET side_to_move == position.turn
             legal_moves == generate_legal_moves(position, side_to_move)
             value == IF Len(legal_moves) # 0
                      THEN IF side_to_move = maximizing_color
                           THEN 0 - Inf ELSE Inf
                      ELSE IF is_in_check(position, side_to_move)
                           THEN IF side_to_move = maximizing_color
                                THEN 0 - MateScore ELSE MateScore
                           ELSE 0
         IN  Frame("minimax", position, d, alpha, beta, maximizing_color,
                   legal_moves, value)

\* The call a frame's for loop makes for its move number i.
child_frame(frame) ==
    LET child == apply_move(frame.board, frame.legal_moves[frame.i], TRUE) IN
    IF frame.fn = "find_best_move"
    THEN minimax_frame(child, frame.depth - 1, 0 - Inf, Inf,
                       frame.maximizing_color)
    ELSE minimax_frame(child, frame.depth - 1, frame.alpha, frame.beta,
                       frame.maximizing_color)

\* A frame whose loop is over (or was never entered) returns.
returns(frame) == frame.broke \/ frame.i > Len(frame.legal_moves)

\* What the caller's loop body does with the score its call returned.
after_return(frame, score) ==
    IF frame.fn = "find_best_move"
    THEN IF improves(frame.board.turn, score, frame.value)
         THEN [frame EXCEPT !.value = score,
                            !.best_move = frame.legal_moves[frame.i],
                            !.i = frame.i + 1]
         ELSE [frame EXCEPT !.i = frame.i + 1]
    ELSE IF frame.board.turn = frame.maximizing_color
    THEN LET value == max(frame.value, score)
             alpha == max(frame.alpha, value)
         IN  IF beta_cutoff(alpha, frame.beta)
             THEN [frame EXCEPT !.value = value, !.alpha = alpha, !.broke = TRUE]
             ELSE [frame EXCEPT !.value = value, !.alpha = alpha,
                                !.i = frame.i + 1]
    ELSE LET value == min(frame.value, score)
             beta == min(frame.beta, value)
         IN  IF alpha_cutoff(frame.alpha, beta)
             THEN [frame EXCEPT !.value = value, !.beta = beta, !.broke = TRUE]
             ELSE [frame EXCEPT !.value = value, !.beta = beta,
                                !.i = frame.i + 1]

InitCalls ==
    /\ board \in {from_fen(text).board : text \in SearchFens}
    /\ depth \in (0 - MaxCallDepth)..MaxCallDepth
    /\ human_color = "white"
    /\ status = "playing"
    /\ ply = 0
    /\ last = Op("init", board, <<>>, NoMove, 0)
    /\ fen = <<>>
    /\ parsed = NotParsed
    /\ stack = <<>>
    /\ heap = <<>>
    /\ positions = <<>>

\* game.ai_move(depth): find_best_move is entered.
EnterFindBestMove ==
    /\ status = "playing"
    /\ stack = <<>>
    /\ stack' = <<find_best_move_frame(board, depth)>>
    /\ status' = "searching"
    /\ UNCHANGED <<board, depth, human_color, ply, last, fen, parsed,
                   heap, positions>>

\* The innermost loop calls minimax for its next move.
CallMinimax ==
    /\ status = "searching"
    /\ ~returns(stack[Len(stack)])
    /\ Len(stack) < RecursionLimit
    /\ stack' = Append(stack, child_frame(stack[Len(stack)]))
    /\ UNCHANGED <<board, depth, human_color, status, ply, last, fen, parsed,
                   heap, positions>>

\* The call would need one frame more than the interpreter allows:
\* RecursionError unwinds every frame.
RaiseRecursionError ==
    /\ status = "searching"
    /\ ~returns(stack[Len(stack)])
    /\ Len(stack) >= RecursionLimit
    /\ stack' = <<>>
    /\ status' = "RecursionError"
    /\ UNCHANGED <<board, depth, human_color, ply, last, fen, parsed,
                   heap, positions>>

\* The innermost minimax call returns its value to the loop that called it.
ReturnMinimax ==
    /\ status = "searching"
    /\ Len(stack) > 1
    /\ returns(stack[Len(stack)])
    /\ stack' = [SubSeq(stack, 1, Len(stack) - 1) EXCEPT
                    ![Len(stack) - 1] =
                        after_return(stack[Len(stack) - 1],
                                     stack[Len(stack)].value)]
    /\ UNCHANGED <<board, depth, human_color, status, ply, last, fen, parsed,
                   heap, positions>>

\* find_best_move returns SearchResult(move=best_move, score=best_score).
ReturnFindBestMove ==
    /\ status = "searching"
    /\ Len(stack) = 1
    /\ returns(stack[1])
    /\ last' = Op("ai", board, <<>>, stack[1].best_move, stack[1].value)
    /\ stack' = <<>>
    /\ status' = "searched"
    /\ UNCHANGED <<board, depth, human_color, ply, fen, parsed,
                   heap, positions>>

NextCalls ==
    \/ EnterFindBestMove
    \/ CallMinimax
    \/ RaiseRecursionError
    \/ ReturnMinimax
    \/ ReturnFindBestMove

SpecCalls == InitCalls /\ [][NextCalls]_vars

\* The frames of minimax calls now active.
MinimaxFrames == {k \in 1..Len(stack) : stack[k].fn = "minimax"}

\* C11: for every position and every integer max_depth, find_best_move
\* terminates and the nesting of minimax calls never exceeds max_depth: the
\* remaining depth of every active call is at least 0 and the interpreter's
\* limit on nested calls is never hit.
C11_DepthBoundTerminates ==
    /\ status # "RecursionError"
    /\ Cardinality(MinimaxFrames) <= max(depth, 0)
    /\ \A k \in MinimaxFrames : stack[k].depth >= 0

\* C15: in minimax, once alpha >= beta at a node (a cut-off, at a maximizing
\* or at a minimizing node), the node's loop makes no further call: no later
\* sibling is applied or searched.
C15_CutoffSkipsSiblings ==
    [][ (/\ stack # <<>>
         /\ stack[Len(stack)].fn = "minimax"
         /\ stack[Len(stack)].alpha >= stack[Len(stack)].beta)
        => Len(stack') <= Len(stack) ]_vars

\* C15's case: a cut-off at a node that still had moves left to search.
C15_Witness ==
    /\ stack # <<>>
    /\ stack[Len(stack)].fn = "minimax"
    /\ stack[Len(stack)].alpha >= stack[Len(stack)].beta
    /\ stack[Len(stack)].i < Len(stack[Len(stack)].legal_moves)

\* ------------------------------------------------------------------------
\* SpecHeap: Board objects and the list objects behind their grids.  A Board
\* object names its 8 row lists by address; heap maps an address to the cells
\* of that list.  Two objects share cell storage when they name the same
\* address, and a write through one is then seen through the other.
\* ------------------------------------------------------------------------

MaxPositions == 2    \* objects: Board objects kept alive
MaxHeapDepth == 1    \* objects: largest max_depth of find_best_move

HeapFens == {PromotionBlackFen, PinnedRookFen, RookTradeWhiteFen}

next_address(h) ==
    IF DOMAIN h = {} THEN 1
    ELSE (CHOOSE a \in DOMAIN h : \A b \in DOMAIN h : b <= a) + 1

\* [[cell for cell in row] for row in grid]: 8 new lists with the cells of
\* the 8 lists named by rows.
copy_rows(h, rows) ==
    LET base == next_address(h) - 1 IN
    [heap |-> h @@ [a \in (base + 1)..(base + 8) |-> h[rows[a - base]]],
     rows |-> [r \in 1..8 |-> base + r]]

\* A new_grid that is the input's own row lists.
apply_move_new_grid_shared(h, rows) == [heap |-> h, rows |-> rows]

\* apply_move: new_grid = [[cell for cell in row] for row in self._grid]
apply_move_new_grid(h, rows) == copy_rows(h, rows)

\* Board.__init__(grid, turn): self._grid is a copy of grid, row by row.
new_Board(h, rows, turn) ==
    LET made == copy_rows(h, rows) IN
    [heap |-> made.heap, obj |-> [rows |-> made.rows, turn |-> turn]]

\* The position a Board object holds.
deref(h, obj) ==
    Board(<<h[obj.rows[1]], h[obj.rows[2]], h[obj.rows[3]], h[obj.rows[4]],
            h[obj.rows[5]], h[obj.rows[6]], h[obj.rows[7]], h[obj.rows[8]]>>,
          obj.turn)

rows_of(objs) == UNION {Range(objs[k].rows) : k \in 1..Len(objs)}

\* Lists nothing refers to any more are freed.
collect(h, keep) == [a \in DOMAIN h \cap keep |-> h[a]] @@ <<>>

\* Board.apply_move, statement by statement, on the heap.
heap_apply_move(h, obj, move, switch_turn) ==
    LET new_grid == apply_move_new_grid(h, obj.rows)
        from_row == move.from_sq[1] + 1
        from_col == move.from_sq[2] + 1
        to_row == move.to_sq[1] + 1
        to_col == move.to_sq[2] + 1
        moved == new_grid.heap[new_grid.rows[from_row]][from_col]
        cleared == [new_grid.heap EXCEPT
                       ![new_grid.rows[from_row]][from_col] = None]
        piece == IF move.promotion # None THEN move.promotion ELSE moved
        written == [cleared EXCEPT ![new_grid.rows[to_row]][to_col] = piece]
        next_turn == IF switch_turn THEN opposite(obj.turn) ELSE obj.turn
    IN  new_Board(written, new_grid.rows, next_turn)

\* The for loop of generate_legal_moves: one apply_move per pseudo-legal move;
\* new_board is read by is_in_check and dropped.
\* (The loop reads the heap it is handed at every iteration; a heap without
\* objects holds no position to loop over.)
RECURSIVE heap_legal_loop(_, _, _, _, _)
heap_legal_loop(h, obj, pseudo, j, keep) ==
    IF j > Len(pseudo) \/ DOMAIN h = {} THEN h
    ELSE LET new_board == heap_apply_move(h, obj, pseudo[j], FALSE) IN
         heap_legal_loop(collect(new_board.heap, keep), obj, pseudo, j + 1, keep)

heap_generate_legal_moves(h, obj, color, keep) ==
    heap_legal_loop(h, obj, _generate_pseudo_moves(deref(h, obj), color), 1, keep)

\* find_best_move / minimax with d plies to go: generate_legal_moves, then
\* for each legal move apply_move and the search of the child; a depth-0
\* call only reads the position.
RECURSIVE heap_search(_, _, _, _)
RECURSIVE heap_search_loop(_, _, _, _, _, _)
heap_search_loop(h, obj, legal_moves, i, d, keep) ==
    IF i > Len(legal_moves) \/ DOMAIN h = {} THEN h
    ELSE LET child == heap_apply_move(h, obj, legal_moves[i], TRUE)
             searched == heap_search(child.heap, child.obj, d - 1,
                                     keep \cup Range(child.obj.rows))
         IN  heap_search_loop(collect(searched, keep), obj, legal_moves,
                              i + 1, d, keep)

heap_search(h, obj, d, keep) ==
    IF d = 0 THEN h
    ELSE LET generated == heap_generate_legal_moves(h, obj, obj.turn, keep)
             legal_moves == generate_legal_moves(deref(generated, obj), obj.turn)
         IN  heap_search_loop(generated, obj, legal_moves, 1, d, keep)

\* The FEN text of every Board object alive.
fens_of(h, objs) == [k \in 1..Len(objs) |-> to_fen(deref(h, objs[k]))]

InitHeap ==
    /\ \E text \in HeapFens :
          \E made \in {new_Board([r \in 1..8 |-> from_fen(text).board.grid[r]],
                                 [r \in 1..8 |-> r],
                                 from_fen(text).board.turn)} :
              /\ positions = <<made.obj>>
              /\ heap = collect(made.heap, Range(made.obj.rows))
              /\ board = from_fen(text).board
    /\ depth = 1
    /\ human_color = "white"
    /\ status = "playing"
    /\ ply = 0
    /\ last = Op("init", <<>>, 0, NoMove, 0)
    /\ fen = <<>>
    /\ parsed = NotParsed
    /\ stack = <<>>

\* new = p.apply_move(move, switch_turn) for a pseudo-legal move of p's side
\* to move; new is kept.
HeapApplyMove ==
    /\ Len(positions) < MaxPositions
    /\ \E p \in 1..Len(positions) : \E switch_turn \in BOOLEAN :
       \E pseudo \in {_generate_pseudo_moves(deref(heap, positions[p]),
                                             positions[p].turn)} :
       \E j \in 1..Len(pseudo) :
       \E made \in {heap_apply_move(heap, positions[p], pseudo[j], switch_turn)} :
          /\ positions' = Append(positions, made.obj)
          /\ heap' = collect(made.heap, rows_of(positions'))
          /\ last' = Op("apply_move", fens_of(heap, positions), p, pseudo[j], 0)
    /\ UNCHANGED <<board, depth, human_color, status, ply, fen, parsed, stack>>

\* p.generate_legal_moves(color)
HeapGenerateLegalMoves ==
    /\ \E p \in 1..Len(positions) : \E color \in Colors :
          /\ heap' = heap_generate_legal_moves(heap, positions[p], color,
                                               rows_of(positions))
          /\ last' = Op("generate_legal_moves", fens_of(heap, positions), p,
                        NoMove, 0)
    /\ UNCHANGED <<board, depth, human_color, status, ply, fen, parsed, stack,
                   positions>>

\* p.is_in_check(color): the position is only read.
HeapIsInCheck ==
    /\ \E p \in 1..Len(positions) : \E color \in Colors :
          last' = Op("is_in_check", fens_of(heap, positions), p, NoMove,
                     IF is_in_check(deref(heap, positions[p]), color)
                     THEN 1 ELSE 0)
    /\ UNCHANGED <<board, depth, human_color, status, ply, fen, parsed, stack,
                   heap, positions>>

\* find_best_move(p, max_depth)
HeapFindBestMove ==
    /\ \E p \in 1..Len(positions) : \E max_depth \in 1..MaxHeapDepth :
          /\ heap' = heap_search(heap, positions[p], max_depth,
                                 rows_of(positions))
          /\ last' = Op("find_best_move", fens_of(heap, positions), p,
                        find_best_move(deref(heap, positions[p]), max_depth).move,
                        max_depth)
    /\ UNCHANGED <<board, depth, human_color, status, ply, fen, parsed, stack,
                   positions>>

NextHeap ==
    \/ HeapApplyMove
    \/ HeapGenerateLegalMoves
    \/ HeapIsInCheck
    \/ HeapFindBestMove

SpecHeap == InitHeap /\ [][NextHeap]_vars

\* C12: whatever was called last (apply_move with switch_turn true or false,
\* generate_legal_moves, is_in_check, find_best_move), every position that
\* existed before the call has the FEN text it had before, and no two Board
\* objects name the same row list: the position apply_move returned shares no
\* cell storage with its input.
C12_NoPositionMutated ==
    /\ \A k \in 1..Len(last.before) :
           to_fen(deref(heap, positions[k])) = last.before[k]
    /\ \A k \in 1..Len(positions) : \A n \in 1..Len(positions) :
           k # n => Range(positions[k].rows) \cap Range(positions[n].rows) = {}
    /\ \A k \in 1..Len(positions) : Cardinality(Range(positions[k].rows)) = 8

\* C12's case: apply_move without a turn switch made a new position that
\* differs from its input, and the input still reads as before.
C12_Witness ==
    /\ last.op = "apply_move"
    /\ Len(positions) = Len(last.before) + 1
    /\ positions[Len(positions)].turn = positions[last.input].turn
    /\ to_fen(deref(heap, positions[Len(positions)])) # last.before[last.input]
    /\ to_fen(deref(heap, positions[last.input])) = last.before[last.input]

\* ------------------------------------------------------------------------
\* Promotions in pseudo-move generation, on the positions of SpecSearch
\* ------------------------------------------------------------------------

Squares == {<<r, c>> : r \in 0..7, c \in 0..7}

\* The pawns of color one step from their far rank (White's rank 7 is row 1,
\* Black's rank 2 is row 6).
PawnsAboutToPromote(position, color) ==
    {sq \in Squares :
        /\ sq[1] = (IF color = "white" THEN 1 ELSE 6)
        /\ piece_at(position, sq) = (IF color = "white" THEN "P" ELSE "p")}

\* The far-rank squares such a pawn can go to: straight ahead if empty,
\* diagonally ahead if an opposing piece stands there.
PromotionTargets(position, color, sq) ==
    LET far == IF color = "white" THEN 0 ELSE 7
        opposing == IF color = "white" THEN LowerLetters ELSE UpperLetters
    IN  {t \in Squares :
            /\ t[1] = far
            /\ \/ t[2] = sq[2] /\ piece_at(position, t) = None
               \/ /\ t[2] \in {sq[2] - 1, sq[2] + 1}
                  /\ piece_at(position, t) \in opposing}

\* C13: for every pawn one step from its far rank and every such target,
\* pseudo-move generation emits exactly four moves from the pawn to the
\* target: the promotions Q, R, B, N in that order, in the mover's case, and
\* no move without a promotion.
C13_PromotionCompleteness ==
    \A color \in Colors :
        LET pseudo == _generate_pseudo_moves(board, color) IN
        \A sq \in PawnsAboutToPromote(board, color) :
        \A t \in PromotionTargets(board, color, sq) :
            LET to_target(m) == m.from_sq = sq /\ m.to_sq = t IN
            SelectSeq(pseudo, to_target) =
                IF color = "white"
                THEN <<Move(sq, t, "Q"), Move(sq, t, "R"),
                       Move(sq, t, "B"), Move(sq, t, "N")>>
                ELSE <<Move(sq, t, "q"), Move(sq, t, "r"),
                       Move(sq, t, "b"), Move(sq, t, "n")>>

\* C13's case: a pawn of the side to move that can promote both straight
\* ahead and by a capture.
C13_Witness ==
    \E sq \in PawnsAboutToPromote(board, board.turn) :
        /\ Cardinality(PromotionTargets(board, board.turn, sq)) >= 2
        /\ Len(SelectSeq(_generate_pseudo_moves(board, board.turn),
                         LAMBDA m : m.from_sq = sq)) >= 8

\* ------------------------------------------------------------------------
\* The check detector on the positions from_fen accepts (SpecFen)
\* ------------------------------------------------------------------------

\* The squares holding a king of color.
KingSquares(position, color) ==
    {sq \in Squares :
        piece_at(position, sq) = (IF color = "white" THEN "K" ELSE "k")}

\* The first of them in row-major order.
FirstKingSquare(position, color) ==
    CHOOSE sq \in KingSquares(position, color) :
        \A other \in KingSquares(position, color) :
            \/ sq[1] < other[1]
            \/ sq[1] = other[1] /\ sq[2] <= other[2]

\* C14: is_in_check(position, color) is true exactly when color has no king
\* on the board or some pseudo-legal move of the opposite colour ends on the
\* square of color's first king in row-major order; it is true for White in
\* the Fool's-mate position.
C14_IsInCheck ==
    (parsed # NotParsed /\ parsed.ok) =>
        /\ \A color \in Colors :
              is_in_check(parsed.board, color) <=>
                  \/ KingSquares(parsed.board, color) = {}
                  \/ LET attacks == _generate_pseudo_moves(parsed.board,
                                                           opposite(color))
                     IN  \E j \in 1..Len(attacks) :
                             attacks[j].to_sq =
                                 FirstKingSquare(parsed.board, color)
        /\ fen = FoolsMateFen => is_in_check(parsed.board, "white")

\* C14's case: the Fool's-mate text was parsed, White is in check from the
\* queen on h4 and Black is not in check.
C14_Witness ==
    /\ fen = FoolsMateFen
    /\ parsed # NotParsed
    /\ parsed.ok
    /\ is_in_check(parsed.board, "white")
    /\ ~is_in_check(parsed.board, "black")
    /\ \E j \in 1..Len(_generate_pseudo_moves(parsed.board, "black")) :
           /\ _generate_pseudo_moves(parsed.board, "black")[j].from_sq = <<4, 7>>
           /\ _generate_pseudo_moves(parsed.board, "black")[j].to_sq = <<7, 4>>

\* ------------------------------------------------------------------------
\* SpecLines: legal play from the start position along a repertoire of
\* moves: Game() followed by Game.apply_move of moves taken from
\* generate_legal_moves whose text is in the repertoire.  The lines hold
\* checks, answers to checks, captures and a checkmate.
\* ------------------------------------------------------------------------

MaxLinePly == 6      \* repertoire play: moves from the start position

RepertoireTexts ==
    { <<"f", "2", "f", "3">>, <<"e", "7", "e", "5">>,
      <<"g", "2", "g", "4">>, <<"d", "8", "h", "4">>,
      <<"e", "2", "e", "4">>, <<"f", "7", "f", "5">>,
      <<"d", "1", "h", "5">>, <<"g", "7", "g", "6">>,
      <<"h", "5", "g", "6">>, <<"h", "7", "g", "6">>,
      <<"e", "4", "f", "5">>, <<"g", "8", "f", "6">>,
      <<"f", "1", "b", "5">>, <<"c", "7", "c", "6">>,
      <<"d", "7", "d", "6">>, <<"b", "5", "d", "7">>,
      <<"e", "8", "d", "7">>, <<"e", "1", "f", "2">> }

InitLines ==
    /\ board = start_position
    /\ depth = 1
    /\ human_color = "white"
    /\ status = "playing"
    /\ ply = 0
    /\ last = Op("init", start_position, <<>>, NoMove, 0)
    /\ fen = StartFen
    /\ parsed = from_fen(StartFen)
    /\ stack = <<>>
    /\ heap = <<>>
    /\ positions = <<>>

PlayRepertoireMove ==
    /\ ply < MaxLinePly
    /\ \E legal_moves \in {generate_legal_moves(board, board.turn)} :
       \E i \in 1..Len(legal_moves) :
           /\ to_long_algebraic(legal_moves[i]) \in RepertoireTexts
           /\ board' = apply_move(board, legal_moves[i], TRUE)
           /\ last' = Op("legal", board, to_long_algebraic(legal_moves[i]),
                         legal_moves[i], 0)
    /\ ply' = ply + 1
    /\ UNCHANGED <<depth, human_color, status, fen, parsed,
                   stack, heap, positions>>

NextLines == PlayRepertoireMove

SpecLines == InitLines /\ [][NextLines]_vars

\* C16: in every position reached from the start position by moves taken
\* from generate_legal_moves, each colour has exactly one king, the side that
\* has just moved is not in check, and no legal move of the side to move
\* captures a king.
C16_LegalPlayInvariant ==
    /\ \A color \in Colors : Cardinality(KingSquares(board, color)) = 1
    /\ ply > 0 => ~is_in_check(board, opposite(board.turn))
    /\ LET legal_moves == generate_legal_moves(board, board.turn) IN
       \A i \in 1..Len(legal_moves) :
           piece_at(board, legal_moves[i].to_sq) \notin {"K", "k"}

\* C16's case: the side that has just moved was in check before its move,
\* had pseudo-legal moves that the filter refused, and is out of check now.
C16_Witness ==
    /\ last.op = "legal"
    /\ is_in_check(last.before, last.before.turn)
    /\ Len(generate_legal_moves(last.before, last.before.turn))
           < Len(_generate_pseudo_moves(last.before, last.before.turn))
    /\ ~is_in_check(board, opposite(board.turn))

\* ------------------------------------------------------------------------
\* SpecMate: the command loop of run_cli, played long enough for a game to
\* end: the human's inputs hold a line that checkmates the engine.
\* ------------------------------------------------------------------------

MaxMatePly == 7      \* command loop, mating line: moves applied

MateTexts ==
    { <<"e", "2", "e", "3">>,
      <<"d", "1", "f", "3">>,
      <<"f", "1", "c", "4">>,
      <<"c", "4", "f", "7">>,
      <<"e", "1", "e", "2", "Q">>,
      <<"e", "7", "e", "5">>,
      <<"g", "8", "f", "6">>,
      <<"q", "u", "i", "t">> }

MateHumanTurn == HumanTurn(MateTexts, MaxMatePly)

MateEngineTurn == EngineTurn(MaxMatePly)

NextMate ==
    \/ CliGameOver
    \/ MateHumanTurn
    \/ MateEngineTurn

SpecMate == InitCli /\ [][NextMate]_vars

\* C17: is_finished returns a result exactly when the side to move has no
\* legal move (checkmate won by the other colour if that side is in check,
\* stalemate without a winner otherwise); whenever the engine was asked to
\* move, the side to move had a legal move and the engine returned a move, so
\* the loop never reaches its 'Engine has no moves' branch.
C17_GameOverPrecedesTurn ==
    /\ LET color == board.turn
           none == Len(generate_legal_moves(board, color)) = 0
       IN  IF none
           THEN is_finished(board) =
                    IF is_in_check(board, color)
                    THEN GameResult(opposite(color), "checkmate")
                    ELSE GameResult(None, "stalemate")
           ELSE is_finished(board) = NoResult
    /\ last.op = "ai" =>
           /\ Len(generate_legal_moves(last.before, last.before.turn)) > 0
           /\ last.move # NoMove
    /\ status # "engine_no_moves"

\* C17's case: the human has checkmated the engine (both kings on the
\* board); the loop ended on the is_finished test, before the engine was asked.
C17_Witness ==
    /\ status = "finished"
    /\ board.turn # human_color
    /\ \A color \in Colors : Cardinality(KingSquares(board, color)) = 1
    /\ is_checkmate(board, board.turn)
    /\ last.op = "human"

====
